---- MODULE Spec2Model ----
(***************************************************************************)
(* ExpressServerTask (lib/tasks/server/express-server.js): the lifecycle   *)
(* of the development HTTP(S) server: start, stop, restart, the debounced  *)
(* restart trigger of the server watcher and the socket registry.          *)
(*                                                                         *)
(* Every promise callback and every event-loop callback of the task is     *)
(* one action.  The environment (the watcher, the clients, the file        *)
(* system, the custom server module, the addons, the operating system's    *)
(* answer to a bind) is a nondeterministic input of the action that reads   *)
(* it.                                                                     *)
(***************************************************************************)
EXTENDS Naturals, Integers, Sequences, FiniteSets

\* ------------------------------------------------------------------ bounds
\* restartHttpServer() calls made over a run (each begins at most one
\* cycle); QueueSpec makes one more, while a cycle is in flight
MaxRestarts == 2
\* connections accepted over a run, over all server instances
MaxConns == 2
\* this.project.addons.length; every addon exposes serverMiddleware
NumAddons == 2
\* this.serverRestartDelayTime, in clock ticks
RestartDelay == 2
\* watcher notifications in one burst (one run of the debounce timer)
MaxBurst == 2

\* ------------------------------------------------------------------- state
VARIABLES
  started,              \* start(options) was called: this.startOptions is set
  ssl,                  \* this.startOptions.ssl
  httpServer,           \* this.httpServer: 0 is null, else a server object
  srvState,             \* the net.Server objects the task has created
  sockets,              \* this.sockets: socketId -> connection (0: no entry)
  nextSocketId,         \* this.nextSocketId
  conn,                 \* the connections the servers have accepted
  serverRestartPromise, \* this.serverRestartPromise: 0 is null, else a cycle
  proc,                 \* the promise chains: 0 is start(), r >= 1 is the
                        \* r-th restartHttpServer() call and its cycle
  waiting,              \* per cycle, the continuations attached to its promise
  timer,                \* the debounce timer: -1 none, else ticks left
  sinceNotify,          \* ticks since the last watcher notification
  bursts,               \* notifications that found no timer pending
  burstLen,             \* notifications of the latest burst
  fires,                \* invocations of the debounced function
  app,                  \* this.app: 0 before start, else an express application
  mw,                   \* per application, what was mounted on it, in order
  probe                 \* the latest custom server module seen, and its effect

vars == <<started, ssl, httpServer, srvState, sockets, nextSocketId, conn,
          serverRestartPromise, proc, waiting, timer, sinceNotify, bursts, burstLen, fires,
          app, mw, probe>>

MaxCalls  == MaxRestarts + 1
Procs     == 0 .. MaxCalls
Cycles    == 1 .. MaxCalls
Servers   == 1 .. (MaxCalls + 1)
Apps      == 1 .. (MaxCalls + 1)
ConnIds   == 1 .. MaxConns
SocketIds == 0 .. (MaxConns - 1)

\* What project.require(serverRoot) returns: no server/index.js, a
\* non-function export, or a function with the given number of parameters.
ServerExports == {"absent", "object", "fn0", "fn2", "fn3", "fn4"}

IsFunction(e) == e \in {"fn0", "fn2", "fn3", "fn4"}

FnLength(e) == CASE e = "fn0" -> 0
                 [] e = "fn2" -> 2
                 [] e = "fn3" -> 3
                 [] e = "fn4" -> 4
                 [] OTHER -> 0

\* Nothing seen of a custom server module yet.
NoProbe == [app |-> 0, export |-> "absent", used |-> 0, called |-> 0, threw |-> FALSE]

\* The server object a chain creates in setupHttpServer.
ServerOf(p) == p + 1

NewProc == [pc |-> "unused", ix |-> 0, err |-> "none", srv |-> 0,
            closing |-> 0, notRunning |-> FALSE, tlsOk |-> TRUE,
            behind |-> 0, ord |-> 0,
            listened |-> FALSE, invalidated |-> FALSE, val |-> "ok",
            reported |-> FALSE,
            listeningEvents |-> 0, restartEvents |-> 0, statusLines |-> 0]

\* A start() whose .then callback is also its rejection handler.
FailPc_StatusOnFailure(p) == IF p = 0 THEN "serving" ELSE "catch"

\* A failure inside start() propagates to the caller; inside a restart
\* cycle it travels down the chain to the .catch of restartHttpServer.
FailPc(p) == IF p = 0 THEN "failed" ELSE "catch"

Fail(rec, p, why) == [rec EXCEPT !.pc = FailPc(p), !.err = why, !.val = "err"]

Init ==
  /\ started = FALSE
  /\ ssl = FALSE
  /\ httpServer = 0
  /\ srvState = [s \in Servers |-> "none"]
  /\ sockets = [i \in SocketIds |-> 0]
  /\ nextSocketId = 0
  /\ conn = [k \in ConnIds |-> [srv |-> 0, sid |-> 0, st |-> "unused"]]
  /\ serverRestartPromise = 0
  /\ proc = [p \in Procs |-> NewProc]
  /\ waiting = [c \in Cycles |-> <<>>]
  /\ timer = -1
  /\ sinceNotify = 0
  /\ bursts = 0
  /\ burstLen = 0
  /\ fires = 0
  /\ app = 0
  /\ mw = [a \in Apps |-> <<>>]
  /\ probe = NoProbe

\* ------------------------------------------------------ the event loop
\* The callbacks of a promise that is already settled (rsvp runs them from
\* process.nextTick) run before the event loop delivers the next timer,
\* socket or server event, and before the owner of the task can make
\* another call.
SettledPcs == {"stopResolved", "appMw", "listenCall", "then", "catch", "finally",
               "serving"}

CallbacksPending ==
  \/ \E p \in Procs : proc[p].pc \in SettledPcs
  \/ \E c \in Cycles : proc[c].pc = "settled" /\ waiting[c] # <<>>

\* ------------------------------------------------- startHttpServer, sync part
\* createHttpsServer checking the certificate only.
CreateHttpsServerOk_CertOnly(keyOk, certOk) == certOk

\* createHttpsServer: existsSync(sslKey) and existsSync(sslCert), else a
\* TypeError is thrown.
CreateHttpsServerOk(keyOk, certOk) == keyOk /\ certOk

\* startHttpServer keeping the application it has: this.app = this.app ||
\* express().
AppOf_Reused(p) == IF app # 0 THEN app ELSE p + 1

\* The application a chain creates in startHttpServer.
AppOf(p) == p + 1

\* The application a server was created with: createServer(this.app) right
\* after this.app = express().
AppServed(s) == s

\* What the task applies to an application: the compression middleware, the
\* serverMiddleware hook of addon ix.
Compression == [kind |-> "compression", ix |-> 0]

AddonHook(i) == [kind |-> "addon", ix |-> i]

\* this.app = express() with the compression middleware; setupHttpServer():
\* the server object is created and
\* stored, then a new registry and a reset id counter.  With ssl and a
\* missing key or certificate createHttpsServer throws before the
\* assignment, so httpServer, sockets and nextSocketId keep their values.
\* rec is the chain's record at the call.
StartHttpServerSync(p, rec, useSsl, keyOk, certOk) ==
  LET r1 == [rec EXCEPT !.tlsOk = (~useSsl) \/ (keyOk /\ certOk)] IN
  /\ app' = AppOf(p)
  /\ mw' = [mw EXCEPT ![AppOf(p)] = Append(@, Compression)]
  /\ IF useSsl /\ ~CreateHttpsServerOk(keyOk, certOk)
     THEN /\ proc' = [proc EXCEPT ![p] = Fail(r1, p, "tls")]
          /\ UNCHANGED <<httpServer, srvState, sockets, nextSocketId>>
     ELSE /\ httpServer' = ServerOf(p)
          /\ srvState' = [srvState EXCEPT ![ServerOf(p)] = "created"]
          /\ sockets' = [i \in SocketIds |-> 0]
          /\ nextSocketId' = 0
          /\ proc' = [proc EXCEPT ![p] = [r1 EXCEPT !.pc = "appMw"]]

\* start(options): the options are captured, the watcher handlers are
\* registered, and startHttpServer runs up to its first asynchronous step.
Start ==
  /\ ~started
  /\ started' = TRUE
  /\ \E useSsl \in BOOLEAN, keyOk \in BOOLEAN, certOk \in BOOLEAN :
       /\ ssl' = useSsl
       /\ StartHttpServerSync(0, proc[0], useSsl, keyOk, certOk)
  /\ UNCHANGED <<conn, serverRestartPromise, waiting, timer, sinceNotify, bursts, burstLen, fires, probe>>

\* ------------------------------------------------ the middleware pipeline
\* The pc that follows the custom server module.
AfterAppMw == IF NumAddons = 0 THEN "listenCall" ELSE "addon"

\* A test of the module's shape that mounts every function directly.
MountEffect_NoArityTest(export) ==
  CASE export = "absent"   -> [used |-> 0, called |-> 0, threw |-> FALSE]
    [] ~IsFunction(export) -> [used |-> 0, called |-> 0, threw |-> TRUE]
    [] OTHER               -> [used |-> 1, called |-> 0, threw |-> FALSE]

\* What processAppMiddlewares does with the module: the calls of
\* this.app.use(server), the calls of server(this.app, options), and whether
\* the TypeError is thrown.
MountEffect(export) ==
  CASE export = "absent"    -> [used |-> 0, called |-> 0, threw |-> FALSE]
    [] ~IsFunction(export)  -> [used |-> 0, called |-> 0, threw |-> TRUE]
    [] FnLength(export) = 3 -> [used |-> 1, called |-> 0, threw |-> FALSE]
    [] OTHER                -> [used |-> 0, called |-> 1, threw |-> FALSE]

\* processAppMiddlewares, the first callback of the chain that
\* startHttpServer builds on Promise.resolve(): nothing without
\* server/index.js; a TypeError for a non-function; app.use for three
\* parameters; else the function is called as a factory, and what it throws
\* or rejects with fails the chain.
ProcessAppMiddlewares(p, export, factoryOk) ==
  LET e == MountEffect(export) IN
  IF e.threw
  THEN Fail(proc[p], p, "module")
  ELSE IF e.called > 0 /\ ~factoryOk
       THEN Fail(proc[p], p, "middleware")
       ELSE [proc[p] EXCEPT !.pc = AfterAppMw, !.ix = 1]

\* The custom server module of this.app after processAppMiddlewares has
\* looked at export: the calls add to those already made on this application.
Observe(export) ==
  LET e   == MountEffect(export)
      old == IF probe.app = app THEN probe ELSE NoProbe
  IN  [app |-> app, export |-> export, used |-> old.used + e.used,
       called |-> old.called + e.called, threw |-> e.threw]

\* mapSeries handing every remaining hook to the addons at once.
NextHooks_All(i) == [j \in 1 .. (NumAddons - i) |-> AddonHook(i + j)]

\* mapSeries: after hook i has resolved (i = 0: at the start of the series)
\* the hook of addon i + 1 is called with this.app, if there is one.
NextHooks(i) == IF i < NumAddons THEN <<AddonHook(i + 1)>> ELSE <<>>

\* The chain's first two callbacks, with export as the custom server
\* module: processAppMiddlewares and, if it resolves, the start of
\* processAddonMiddlewares.
PipelineStart(p, export, factoryOk) ==
  LET rec == ProcessAppMiddlewares(p, export, factoryOk) IN
  /\ proc' = [proc EXCEPT ![p] = rec]
  /\ mw' = IF rec.err = "none"
           THEN [mw EXCEPT ![app] = @ \o NextHooks(0)]
           ELSE mw
  /\ UNCHANGED <<started, ssl, httpServer, srvState, sockets, nextSocketId, conn,
                 serverRestartPromise, waiting, timer, sinceNotify, bursts, burstLen, fires, app>>

AppMiddlewares(p) ==
  /\ proc[p].pc = "appMw"
  /\ \E export \in ServerExports, factoryOk \in BOOLEAN :
       PipelineStart(p, export, factoryOk)
  /\ UNCHANGED probe

\* AppMiddlewares with an observer of the custom server module.
AppMiddlewaresObserved(p) ==
  /\ proc[p].pc = "appMw"
  /\ \E export \in ServerExports, factoryOk \in BOOLEAN :
       /\ PipelineStart(p, export, factoryOk)
       /\ probe' = Observe(export)

\* processAddonMiddlewares: mapSeries calls the hook of addon ix once the
\* hook of addon ix - 1 has resolved; a rejection ends the series.
AddonMiddleware(p) ==
  /\ proc[p].pc = "addon"
  /\ ~CallbacksPending
  /\ \E hookOk \in BOOLEAN :
       /\ proc' = [proc EXCEPT ![p] =
                     IF ~hookOk THEN Fail(proc[p], p, "addon")
                     ELSE IF proc[p].ix < NumAddons
                          THEN [proc[p] EXCEPT !.ix = @ + 1]
                          ELSE [proc[p] EXCEPT !.pc = "listenCall"]]
       /\ mw' = IF hookOk THEN [mw EXCEPT ![app] = @ \o NextHooks(proc[p].ix)] ELSE mw
  /\ UNCHANGED <<started, ssl, httpServer, srvState, sockets, nextSocketId, conn,
                 serverRestartPromise, waiting, timer, sinceNotify, bursts, burstLen, fires, app, probe>>

\* --------------------------------------------------------------- listen
\* listen(port, host): the server is read from this.httpServer when the
\* call is made.  server.listen on an object that is not a fresh server
\* throws inside the promise executor, which rejects; every rejection of
\* listen becomes the SilentError "Could not serve on ...".
ListenCall(p) ==
  /\ proc[p].pc = "listenCall"
  /\ IF httpServer # 0 /\ srvState[httpServer] = "created"
     THEN /\ srvState' = [srvState EXCEPT ![httpServer] = "binding"]
          /\ proc' = [proc EXCEPT ![p] = [@ EXCEPT !.pc = "binding",
                                                   !.srv = httpServer,
                                                   !.listened = TRUE]]
     ELSE /\ proc' = [proc EXCEPT ![p] = Fail(proc[p], p, "bind")]
          /\ UNCHANGED srvState
  /\ UNCHANGED <<started, ssl, httpServer, sockets, nextSocketId, conn,
                 serverRestartPromise, waiting, timer, sinceNotify, bursts, burstLen, fires,
                 app, mw, probe>>

\* The pc after a successful bind: the .then of start() or of the cycle.
BoundPc(p) == IF p = 0 THEN "serving" ELSE "then"

\* The server's 'listening' event: resolve(), emit('listening').  The port
\* may be 0 (any free port), so the operating system refuses no bind on
\* account of another server of this task.
Listening(p) ==
  /\ proc[p].pc = "binding"
  /\ ~CallbacksPending
  /\ srvState[proc[p].srv] = "binding"
  /\ srvState' = [srvState EXCEPT ![proc[p].srv] = "listening"]
  /\ proc' = [proc EXCEPT ![p] = [@ EXCEPT !.pc = BoundPc(p),
                                           !.listeningEvents = @ + 1]]
  /\ UNCHANGED <<started, ssl, httpServer, sockets, nextSocketId, conn,
                 serverRestartPromise, waiting, timer, sinceNotify, bursts, burstLen, fires,
                 app, mw, probe>>

\* The server's 'error' event (address in use, no permission): reject.
ListenError(p) ==
  /\ proc[p].pc = "binding"
  /\ ~CallbacksPending
  /\ srvState[proc[p].srv] = "binding"
  /\ srvState' = [srvState EXCEPT ![proc[p].srv] = "failed"]
  /\ proc' = [proc EXCEPT ![p] = Fail(proc[p], p, "bind")]
  /\ UNCHANGED <<started, ssl, httpServer, sockets, nextSocketId, conn,
                 serverRestartPromise, waiting, timer, sinceNotify, bursts, burstLen, fires,
                 app, mw, probe>>

\* start(): the .then that writes "Serving on ...".
StartThen ==
  /\ proc[0].pc = "serving"
  /\ proc' = [proc EXCEPT ![0] = [@ EXCEPT !.pc = "done", !.statusLines = @ + 1]]
  /\ UNCHANGED <<started, ssl, httpServer, srvState, sockets, nextSocketId, conn,
                 serverRestartPromise, waiting, timer, sinceNotify, bursts, burstLen, fires, app, mw, probe>>

\* ------------------------------------------------------ the socket registry
Tracked(k) == \E i \in SocketIds : sockets[i] = k

UnusedConns == {k \in ConnIds : conn[k].st = "unused"}

\* The 'connection' handler of setupHttpServer: the handler of every server
\* writes to the task's current registry and counter.
Connection(s) ==
  /\ srvState[s] = "listening"
  /\ ~CallbacksPending
  /\ UnusedConns # {}
  /\ nextSocketId \in SocketIds
  /\ LET k == CHOOSE x \in UnusedConns : \A y \in UnusedConns : x <= y IN
       /\ conn' = [conn EXCEPT ![k] = [srv |-> s, sid |-> nextSocketId, st |-> "open"]]
       /\ sockets' = [sockets EXCEPT ![nextSocketId] = k]
       /\ nextSocketId' = nextSocketId + 1
  /\ UNCHANGED <<started, ssl, httpServer, srvState, serverRestartPromise, proc,
                 waiting, timer, sinceNotify, bursts, burstLen, fires,
                 app, mw, probe>>

\* The client ends an open connection: the server no longer counts it, and
\* the socket's 'close' event is pending.
ClientEnd(k) ==
  /\ conn[k].st = "open"
  /\ ~CallbacksPending
  /\ conn' = [conn EXCEPT ![k] = [@ EXCEPT !.st = "ended"]]
  /\ UNCHANGED <<started, ssl, httpServer, srvState, sockets, nextSocketId,
                 serverRestartPromise, proc, waiting, timer, sinceNotify, bursts, burstLen, fires, app, mw, probe>>

\* The socket's 'close' handler: delete this.sockets[socketId], in the
\* registry the task holds when the event is delivered.
SocketClose(k) ==
  /\ conn[k].st = "ended"
  /\ ~CallbacksPending
  /\ conn' = [conn EXCEPT ![k] = [@ EXCEPT !.st = "closed"]]
  /\ sockets' = [sockets EXCEPT ![conn[k].sid] = 0]
  /\ UNCHANGED <<started, ssl, httpServer, srvState, nextSocketId,
                 serverRestartPromise, proc, waiting, timer, sinceNotify, bursts, burstLen, fires,
                 app, mw, probe>>

\* ------------------------------------------------------------------- stop
UnusedReqs == {r \in Cycles : proc[r].pc = "unused"}

\* The owner and the watcher may still call restartHttpServer().
CallsLeft == Cardinality(Cycles \ UnusedReqs) < MaxRestarts

\* The cycles that have begun, and the place of the next one among them.
Begun == {c \in Cycles : proc[c].ord # 0}

NextOrd == Cardinality(Begun) + 1

\* stopHttpServer resolving without waiting for the callback of close.
StopHttpServer_ResolvesEarly(c) ==
  /\ proc' = [proc EXCEPT ![c] =
                [@ EXCEPT !.pc = "stopResolved", !.closing = httpServer,
                          !.ord = NextOrd]]
  /\ srvState' = [s \in Servers |->
                    IF s = httpServer /\ srvState[s] = "listening"
                    THEN "closing" ELSE srvState[s]]
  /\ conn' = [k \in ConnIds |->
                IF httpServer # 0 /\ Tracked(k) /\ conn[k].st = "open"
                THEN [conn[k] EXCEPT !.st = "ended"]
                ELSE conn[k]]

\* stopHttpServer that destroys the sockets and forgets the server without
\* closing it.
StopHttpServer_NoClose(c) ==
  /\ proc' = [proc EXCEPT ![c] = [@ EXCEPT !.pc = "stopResolved", !.ord = NextOrd]]
  /\ conn' = [k \in ConnIds |->
                IF httpServer # 0 /\ Tracked(k) /\ conn[k].st = "open"
                THEN [conn[k] EXCEPT !.st = "ended"]
                ELSE conn[k]]
  /\ UNCHANGED srvState

\* stopHttpServer, up to the return of the promise: resolved at once
\* without a server; else close(callback) on the server, and destroy() on
\* every socket of the registry.  close() releases the listening handle at
\* once; on a server that is not listening the callback will get an error.
StopHttpServer(c) ==
  IF httpServer = 0
  THEN /\ proc' = [proc EXCEPT ![c] = [@ EXCEPT !.pc = "stopResolved",
                                                !.ord = NextOrd]]
       /\ UNCHANGED <<srvState, conn>>
  ELSE /\ proc' = [proc EXCEPT ![c] =
                     [@ EXCEPT !.pc = "stopping", !.closing = httpServer,
                               !.ord = NextOrd,
                               !.notRunning = (srvState[httpServer] # "listening")]]
       /\ srvState' = [srvState EXCEPT ![httpServer] =
                         IF @ = "listening" THEN "closing" ELSE @]
       /\ conn' = [k \in ConnIds |->
                     IF Tracked(k) /\ conn[k].st = "open"
                     THEN [conn[k] EXCEPT !.st = "ended"]
                     ELSE conn[k]]

\* The callback of httpServer.close: it runs once the server has no
\* connection left; with an error the promise is rejected and httpServer
\* stays, else httpServer becomes null and the promise is resolved.
ServerCloseCallback(c) ==
  /\ proc[c].pc = "stopping"
  /\ ~CallbacksPending
  /\ \A k \in ConnIds : conn[k].srv = proc[c].closing => conn[k].st # "open"
  /\ IF proc[c].notRunning
     THEN /\ proc' = [proc EXCEPT ![c] = Fail(proc[c], c, "stop")]
          /\ UNCHANGED <<httpServer, srvState>>
     ELSE /\ httpServer' = 0
          /\ srvState' = [srvState EXCEPT ![proc[c].closing] = "closed"]
          /\ proc' = [proc EXCEPT ![c] = [@ EXCEPT !.pc = "stopResolved"]]
  /\ UNCHANGED <<started, ssl, sockets, nextSocketId, conn, serverRestartPromise,
                 waiting, timer, sinceNotify, bursts, burstLen, fires,
                 app, mw, probe>>

\* ---------------------------------------------------------------- restart
\* restartHttpServer() without the test of the slot: every call begins a
\* cycle at once.
RestartHttpServer_NoSlotTest(r, w) ==
  /\ serverRestartPromise' = r
  /\ StopHttpServer(r)
  /\ waiting' = w

\* restartHttpServer() returning the stored promise without attaching a
\* continuation to it.
RestartHttpServer_NoContinuation(r, w) ==
  IF serverRestartPromise = 0
  THEN /\ serverRestartPromise' = r
       /\ StopHttpServer(r)
       /\ waiting' = w
  ELSE /\ waiting' = w
       /\ proc' = [proc EXCEPT ![r] =
                     [@ EXCEPT !.pc = "queued",
                               !.behind = IF @ = 0 THEN serverRestartPromise ELSE @]]
       /\ UNCHANGED <<serverRestartPromise, srvState, conn>>

\* restartHttpServer(), called for request r; w is the table of attached
\* continuations at the call.  Without a promise in the slot a cycle begins
\* and its promise is stored; else the call attaches itself to the stored
\* promise.
RestartHttpServer(r, w) ==
  IF serverRestartPromise = 0
  THEN /\ serverRestartPromise' = r
       /\ StopHttpServer(r)
       /\ waiting' = w
  ELSE /\ waiting' = [w EXCEPT ![serverRestartPromise] = Append(@, r)]
       /\ proc' = [proc EXCEPT ![r] =
                     [@ EXCEPT !.pc = "queued",
                               !.behind = IF @ = 0 THEN serverRestartPromise ELSE @]]
       /\ UNCHANGED <<serverRestartPromise, srvState, conn>>

NextReq == CHOOSE r \in UnusedReqs : \A q \in UnusedReqs : r <= q

\* A direct call of restartHttpServer() by the owner of the task.
RestartCall ==
  /\ started
  /\ ~CallbacksPending
  /\ CallsLeft
  /\ RestartHttpServer(NextReq, waiting)
  /\ UNCHANGED <<started, ssl, httpServer, sockets, nextSocketId, timer,
                 sinceNotify, bursts, burstLen, fires,
                 app, mw, probe>>

\* A call of restartHttpServer() by the owner while a cycle is in flight.
BusyCall ==
  /\ started
  /\ ~CallbacksPending
  /\ UnusedReqs # {}
  /\ serverRestartPromise # 0
  /\ RestartHttpServer(NextReq, waiting)
  /\ UNCHANGED <<started, ssl, httpServer, sockets, nextSocketId, timer,
                 sinceNotify, bursts, burstLen, fires, app, mw, probe>>

\* The first .then of the cycle: invalidateCache(serverRoot), then
\* startHttpServer() with the captured options.
StopThen(c) ==
  /\ proc[c].pc = "stopResolved"
  /\ \E keyOk \in BOOLEAN, certOk \in BOOLEAN :
       StartHttpServerSync(c, [proc[c] EXCEPT !.invalidated = TRUE], ssl, keyOk, certOk)
  /\ UNCHANGED <<started, ssl, conn, serverRestartPromise, waiting, timer,
                 sinceNotify, bursts, burstLen, fires, probe>>

\* The second .then: emit('restart') and "Server restarted."
RestartThen(c) ==
  /\ proc[c].pc = "then"
  /\ proc' = [proc EXCEPT ![c] = [@ EXCEPT !.pc = "finally", !.restartEvents = @ + 1]]
  /\ UNCHANGED <<started, ssl, httpServer, srvState, sockets, nextSocketId, conn,
                 serverRestartPromise, waiting, timer, sinceNotify, bursts, burstLen, fires, app, mw, probe>>

\* A .catch that reports the error and throws it again.
RestartCatch_Rethrows(c) ==
  /\ proc[c].pc = "catch"
  /\ proc' = [proc EXCEPT ![c] = [@ EXCEPT !.pc = "finally", !.reported = TRUE]]
  /\ UNCHANGED <<started, ssl, httpServer, srvState, sockets, nextSocketId, conn,
                 serverRestartPromise, waiting, timer, sinceNotify, bursts, burstLen, fires, app, mw, probe>>

\* The .catch: ui.writeError(err); the chain goes on fulfilled.
RestartCatch(c) ==
  /\ proc[c].pc = "catch"
  /\ proc' = [proc EXCEPT ![c] = [@ EXCEPT !.pc = "finally", !.val = "ok",
                                           !.reported = TRUE]]
  /\ UNCHANGED <<started, ssl, httpServer, srvState, sockets, nextSocketId, conn,
                 serverRestartPromise, waiting, timer, sinceNotify, bursts, burstLen, fires, app, mw, probe>>

\* The slot cleared at the end of the success path only.
RestartFinally_SuccessOnly(c) ==
  /\ proc[c].pc = "finally"
  /\ serverRestartPromise' = IF proc[c].err = "none" THEN 0 ELSE serverRestartPromise
  /\ proc' = [proc EXCEPT ![c] =
                [@ EXCEPT !.pc = IF proc[c].val = "ok" THEN "settled" ELSE "rejected"]]
  /\ UNCHANGED <<started, ssl, httpServer, srvState, sockets, nextSocketId, conn,
                 waiting, timer, sinceNotify, bursts, burstLen, fires, app, mw, probe>>

\* A .finally that also emits 'restart'.
RestartFinally_Emits(c) ==
  /\ proc[c].pc = "finally"
  /\ serverRestartPromise' = 0
  /\ proc' = [proc EXCEPT ![c] =
                [@ EXCEPT !.pc = IF proc[c].val = "ok" THEN "settled" ELSE "rejected",
                          !.restartEvents = @ + 1]]
  /\ UNCHANGED <<started, ssl, httpServer, srvState, sockets, nextSocketId, conn,
                 waiting, timer, sinceNotify, bursts, burstLen, fires, app, mw, probe>>

\* The .finally: the slot is cleared, and the promise of the cycle settles
\* as the chain stood.
RestartFinally(c) ==
  /\ proc[c].pc = "finally"
  /\ serverRestartPromise' = 0
  /\ proc' = [proc EXCEPT ![c] =
                [@ EXCEPT !.pc = IF proc[c].val = "ok" THEN "settled" ELSE "rejected"]]
  /\ UNCHANGED <<started, ssl, httpServer, srvState, sockets, nextSocketId, conn,
                 waiting, timer, sinceNotify, bursts, burstLen, fires, app, mw, probe>>

\* A continuation attached by a queued call: once the promise of cycle c is
\* resolved, () => this.restartHttpServer() runs, in the order of attachment.
Continuation(c) ==
  /\ proc[c].pc = "settled"
  /\ waiting[c] # <<>>
  /\ RestartHttpServer(Head(waiting[c]), [waiting EXCEPT ![c] = Tail(@)])
  /\ UNCHANGED <<started, ssl, httpServer, sockets, nextSocketId, timer,
                 sinceNotify, bursts, burstLen, fires,
                 app, mw, probe>>

\* --------------------------------------------------------------- debounce
\* A scheduler that leaves a running timer alone (a throttle).
ServerWatcherDidChange_KeepsTimer ==
  /\ ~CallbacksPending
  /\ started
  /\ CallsLeft
  /\ timer # -1 => burstLen < MaxBurst
  /\ timer' = IF timer = -1 THEN RestartDelay ELSE timer
  /\ sinceNotify' = 0
  /\ bursts' = IF timer = -1 THEN bursts + 1 ELSE bursts
  /\ burstLen' = IF timer = -1 THEN 1 ELSE burstLen + 1
  /\ UNCHANGED <<started, ssl, httpServer, srvState, sockets, nextSocketId, conn,
                 serverRestartPromise, proc, waiting, fires, app, mw, probe>>

\* serverWatcherDidChange -> scheduleServerRestart: debounce(fn, delay)
\* without leading edge: a call starts the timer or moves its deadline to
\* delay after this call.
ServerWatcherDidChange ==
  /\ started
  /\ ~CallbacksPending
  /\ CallsLeft
  /\ timer # -1 => burstLen < MaxBurst
  /\ timer' = RestartDelay
  /\ sinceNotify' = 0
  /\ bursts' = IF timer = -1 THEN bursts + 1 ELSE bursts
  /\ burstLen' = IF timer = -1 THEN 1 ELSE burstLen + 1
  /\ UNCHANGED <<started, ssl, httpServer, srvState, sockets, nextSocketId, conn,
                 serverRestartPromise, proc, waiting, fires, app, mw, probe>>

\* One tick of the clock while the timer runs.
Tick ==
  /\ timer > 0
  /\ ~CallbacksPending
  /\ timer' = timer - 1
  /\ sinceNotify' = sinceNotify + 1
  /\ UNCHANGED <<started, ssl, httpServer, srvState, sockets, nextSocketId, conn,
                 serverRestartPromise, proc, waiting, bursts, burstLen, fires, app, mw, probe>>

\* A timer whose expiry abandons the cycle in flight and begins a new one.
ScheduleServerRestartFires_Cancels ==
  /\ timer = 0
  /\ ~CallbacksPending
  /\ CallsLeft
  /\ timer' = -1
  /\ sinceNotify' = 0
  /\ fires' = fires + 1
  /\ RestartHttpServer_NoSlotTest(NextReq, waiting)
  /\ UNCHANGED <<started, ssl, httpServer, sockets, nextSocketId, bursts, burstLen,
                 app, mw, probe>>

\* The timer expires: the debounced function calls restartHttpServer().
ScheduleServerRestartFires ==
  /\ timer = 0
  /\ ~CallbacksPending
  /\ CallsLeft
  /\ timer' = -1
  /\ sinceNotify' = 0
  /\ fires' = fires + 1
  /\ RestartHttpServer(NextReq, waiting)
  /\ UNCHANGED <<started, ssl, httpServer, sockets, nextSocketId, bursts, burstLen,
                 app, mw, probe>>

\* ------------------------------------------------------------ specification
\* The server's life cycle, every callback but those of the debounce timer;
\* first without processAppMiddlewares.
LifecycleRest ==
  \/ Start
  \/ \E p \in Procs : AddonMiddleware(p)
  \/ \E p \in Procs : ListenCall(p)
  \/ \E p \in Procs : Listening(p)
  \/ \E p \in Procs : ListenError(p)
  \/ StartThen
  \/ \E s \in Servers : Connection(s)
  \/ \E k \in ConnIds : ClientEnd(k)
  \/ \E k \in ConnIds : SocketClose(k)
  \/ RestartCall
  \/ \E c \in Cycles : ServerCloseCallback(c)
  \/ \E c \in Cycles : StopThen(c)
  \/ \E c \in Cycles : RestartThen(c)
  \/ \E c \in Cycles : RestartCatch(c)
  \/ \E c \in Cycles : RestartFinally(c)
  \/ \E c \in Cycles : Continuation(c)

Lifecycle ==
  \/ LifecycleRest
  \/ \E p \in Procs : AppMiddlewares(p)

\* The life cycle with the observer of the custom server module.
PipelineSpec ==
  Init /\ [][LifecycleRest \/ \E p \in Procs : AppMiddlewaresObserved(p)]_vars

\* The life cycle with calls of restartHttpServer() that pile up behind a
\* cycle in flight.
QueueSpec == Init /\ [][Lifecycle \/ BusyCall]_vars

Next ==
  \/ Lifecycle
  \/ ServerWatcherDidChange
  \/ Tick
  \/ ScheduleServerRestartFires

Spec == Init /\ [][Next]_vars

\* The steps the event loop takes by itself once they are ready: promise
\* callbacks, and the completion of every stop, middleware hook, bind and
\* connection.  Calls of start() and restartHttpServer() and new
\* connections are up to the environment.
Progress ==
  \/ \E p \in Procs : AppMiddlewares(p) \/ AddonMiddleware(p) \/ ListenCall(p)
                         \/ Listening(p) \/ ListenError(p)
  \/ StartThen
  \/ \E k \in ConnIds : ClientEnd(k) \/ SocketClose(k)
  \/ \E c \in Cycles : ServerCloseCallback(c) \/ StopThen(c) \/ RestartThen(c)
                          \/ RestartCatch(c) \/ RestartFinally(c) \/ Continuation(c)

\* Liveness of the restart queue.  restartHttpServer() does not see who
\* calls it, so the call the debounce timer makes is a RestartCall here, and
\* the timer is left out.
LiveSpec == Init /\ [][Lifecycle]_vars /\ WF_vars(Progress)

\* ------------------------------------------------------------------ claims
ExecutingPcs == {"stopping", "stopResolved", "appMw", "addon", "listenCall",
                 "binding", "then", "catch", "finally"}

Executing(c) == proc[c].pc \in ExecutingPcs

Requested == Cycles \ UnusedReqs

\* C1: restart requests made while a cycle is in flight are serialized: at
\* no instant are two cycles executing, a cycle begins only after every
\* cycle begun before it has finished, and once nothing is executing or
\* waiting every request made has run its own cycle to its end.
C1_RestartsSerialized ==
  /\ Cardinality({c \in Cycles : Executing(c)}) <= 1
  /\ \A c, d \in Cycles :
       (proc[c].ord # 0 /\ proc[d].ord # 0 /\ proc[c].ord < proc[d].ord)
         => proc[c].pc = "settled"
  /\ ((\A c \in Cycles : ~Executing(c) /\ waiting[c] = <<>>)
        => \A r \in Requested : proc[r].pc = "settled")

\* Two requests, the second made while the cycle of the first was
\* executing, and both cycles finished.
C1_Witness ==
  /\ proc[1].pc = "settled"
  /\ proc[2].pc = "settled"
  /\ proc[2].behind = 1
  /\ proc[1].ord = 1
  /\ proc[2].ord = 2

\* C2: a burst of watcher notifications, each less than the restart delay
\* after the one before, leads to exactly one call of restartHttpServer, made
\* only once the delay has passed since the last notification.
C2_DebounceCoalesces ==
  [][ /\ fires' + (IF timer' = -1 THEN 0 ELSE 1) = bursts'
      /\ (fires' # fires =>
            /\ fires' = fires + 1
            /\ sinceNotify >= RestartDelay
            /\ Cardinality(Requested') = Cardinality(Requested) + 1) ]_vars

\* A burst of MaxBurst notifications has led to one call.
C2_Witness ==
  /\ bursts = 1
  /\ burstLen = MaxBurst
  /\ fires = 1
  /\ timer = -1
  /\ Cardinality(Requested) = 1

\* C3: the promise restartHttpServer returns is never rejected, for a call
\* that began its own cycle and for a queued one, and every failure of a
\* cycle has been passed to ui.writeError when the promise settles.
C3_RestartNeverRejects ==
  \A r \in Cycles :
    /\ proc[r].pc # "rejected"
    /\ proc[r].pc \in {"finally", "settled"} => proc[r].val = "ok"
    /\ (proc[r].pc \in {"finally", "settled"} /\ proc[r].err # "none")
         => proc[r].reported

\* A queued request whose cycle failed, reported and resolved.
C3_Witness ==
  \E r \in Cycles :
    /\ proc[r].behind # 0
    /\ proc[r].pc = "settled"
    /\ proc[r].err = "bind"
    /\ proc[r].reported

\* C4: after a restart cycle that failed in its start step (invalid custom
\* server module, bind failure), a later cycle still runs stop, invalidate
\* and start.
C4_RestartAfterFailedStart ==
  \A c, d \in Cycles :
    ( /\ proc[c].pc = "settled"
      /\ proc[c].err \in {"module", "bind"}
      /\ proc[d].pc = "settled"
      /\ proc[c].ord < proc[d].ord )
      => proc[d].invalidated

\* The stop step of cycle c is complete.
StopComplete(c) ==
  proc[c].closing = 0 \/ srvState[proc[c].closing] = "closed"

\* C5: in every cycle the stop step is complete (the callback of close has
\* run) before the cache is invalidated, and the cache is invalidated before
\* the start step creates the server.
C5_StopInvalidateStart ==
  \A c \in Cycles :
    /\ proc[c].invalidated => StopComplete(c)
    /\ srvState[ServerOf(c)] # "none" => proc[c].invalidated
    /\ proc[c].pc \in {"appMw", "addon", "listenCall", "binding", "then"}
         => (proc[c].invalidated /\ srvState[ServerOf(c)] # "none")
    /\ proc[c].pc \in {"queued", "stopping", "stopResolved"}
         => (~proc[c].invalidated /\ srvState[ServerOf(c)] = "none")

\* A cycle that closed a listening server and is in its start step.
C5_Witness ==
  \E c \in Cycles :
    /\ proc[c].closing # 0
    /\ ~proc[c].notRunning
    /\ proc[c].pc = "binding"

\* C6: whenever the promise of stopHttpServer is resolved, the registry is
\* empty and httpServer is null.
C6_StopLeavesRegistryEmpty ==
  \A c \in Cycles :
    proc[c].pc = "stopResolved"
      => (httpServer = 0 /\ \A i \in SocketIds : sockets[i] = 0)

\* C7: at most one server of the task is bound at any time.
C7_OneServerBound ==
  Cardinality({s \in Servers : srvState[s] = "listening"}) <= 1

\* A restart that fired during the initial start, and a later restart that
\* replaced the server.
C7_Witness ==
  \E c, d \in Cycles :
    /\ proc[c].err = "stop"
    /\ proc[c].closing = ServerOf(0)
    /\ srvState[ServerOf(0)] = "closed"
    /\ srvState[ServerOf(d)] = "listening"

\* C8: every request that reaches restartHttpServer eventually runs its own
\* cycle to its end, also one made while another cycle was in flight.
C8_EveryRequestRuns ==
  \A r \in Cycles : (proc[r].pc # "unused") ~> (proc[r].pc = "settled" /\ proc[r].ord # 0)

\* A queued request that ran its own full cycle and has the server
\* listening.
C8_Witness ==
  \E r \in Cycles :
    /\ proc[r].behind # 0
    /\ proc[r].pc = "settled"
    /\ proc[r].invalidated
    /\ srvState[ServerOf(r)] = "listening"

\* C9: a start with ssl and a missing key or certificate fails before
\* listen is called on any server, and creates no server.
C9_TlsFailsBeforeBind ==
  \A p \in Procs :
    ~proc[p].tlsOk
      => /\ proc[p].err = "tls"
         /\ ~proc[p].listened
         /\ srvState[ServerOf(p)] = "none"
         /\ p = 0 => proc[p].pc = "failed"

\* start() has failed on the missing key or certificate.
C9_Witness ==
  /\ ssl
  /\ ~proc[0].tlsOk
  /\ proc[0].pc = "failed"

\* The start attempt of chain p has just failed: nothing has run since.
JustFailed(p) ==
  IF p = 0
  THEN proc[0].pc = "failed" /\ \A c \in Cycles : proc[c].pc = "unused"
  ELSE proc[p].pc = "catch"

\* C10: a start attempt that fails with a configuration error leaves no
\* server held by the task.
C10_ConfigErrorLeavesNoServer ==
  \A p \in Procs :
    (JustFailed(p) /\ proc[p].err \in {"tls", "module"}) => httpServer = 0

\* C11: when the bind fails, the start attempt fails with the "Could not
\* serve on ..." error, listen was called once and is not called again, and
\* the task is left stopped: no server is bound and no server is held.
C11_BindFailureLeavesStopped ==
  \A p \in Procs :
    (JustFailed(p) /\ proc[p].err = "bind")
      => /\ proc[p].val = "err"
         /\ proc[p].listened
         /\ srvState[ServerOf(p)] = "failed"
         /\ \A s \in Servers : srvState[s] \notin {"binding", "listening"}
         /\ httpServer = 0

\* The addon hooks called with application a, in the order of the calls.
HooksOf(a) == SelectSeq(mw[a], LAMBDA e : e.kind = "addon")

\* C12: the custom server module is processed before the first addon hook;
\* the hooks are called in the order of project.addons, the next one only
\* once the one before has resolved; listen is called only after all of
\* them; after a rejected hook no later hook is called, listen is not
\* called and the start attempt fails.
C12_PipelineInOrder ==
  \A p \in Procs :
    LET h == HooksOf(AppOf(p)) IN
    /\ \A i \in 1 .. Len(h) : h[i] = AddonHook(i)
    /\ (Len(h) > 0 /\ app = AppOf(p)) => (probe.app = AppOf(p) /\ ~probe.threw)
    /\ proc[p].pc = "appMw" => Len(h) = 0
    /\ proc[p].pc = "addon" => Len(h) = proc[p].ix
    /\ proc[p].listened => (Len(h) = NumAddons /\ proc[p].err \in {"none", "bind"})
    /\ proc[p].err = "addon"
         => /\ Len(h) = proc[p].ix
            /\ ~proc[p].listened
            /\ srvState[ServerOf(p)] = "created"
            /\ proc[p].pc \in {"failed", "catch", "finally", "settled"}

\* The first hook of a restart cycle was rejected, with more addons behind
\* it, after a start that called listen.
C12_Witness ==
  \E c \in Cycles :
    /\ proc[0].listened
    /\ proc[c].err = "addon"
    /\ proc[c].ix < NumAddons
    /\ Len(HooksOf(AppOf(c))) = proc[c].ix

\* The chain that created application a.
ChainOf(a) == a - 1

\* C13: a custom server module that is a function of three parameters is
\* mounted with app.use and not called; a function of any other number of
\* parameters is called once with (app, options) and not mounted; anything
\* else makes the start attempt fail with the TypeError; without a module
\* nothing is mounted, called or thrown.
C13_ModuleShape ==
  probe.app # 0 =>
    LET rec == proc[ChainOf(probe.app)] IN
    /\ probe.export = "fn3"
         => (probe.used = 1 /\ probe.called = 0 /\ ~probe.threw)
    /\ probe.export \in {"fn0", "fn2", "fn4"}
         => (probe.used = 0 /\ probe.called = 1 /\ ~probe.threw)
    /\ probe.export = "object"
         => (probe.used = 0 /\ probe.called = 0 /\ probe.threw)
    /\ probe.export = "absent"
         => (probe.used = 0 /\ probe.called = 0 /\ ~probe.threw
               /\ rec.err \notin {"module", "middleware"})
    /\ probe.threw <=> rec.err = "module"
    /\ rec.err = "middleware" => probe.called = 1

\* A restart cycle found a factory of four parameters where start() had
\* found none, and went on to the addons.
C13_Witness ==
  \E c \in Cycles :
    /\ probe.app = AppOf(c)
    /\ probe.export = "fn4"
    /\ probe.called = 1
    /\ proc[c].pc = "addon"

\* The server has been bound: it is listening or was closed after that.
WasBound(s) == s # 0 /\ srvState[s] \in {"listening", "closing", "closed"}

\* C14: 'listening' has been emitted once for every bind that succeeded and
\* for nothing else; 'restart' has been emitted once for every restart cycle
\* that came through stop, build and bind, and never for a cycle that
\* failed or for start().
C14_EventsOncePerSuccess ==
  /\ \A p \in Procs :
       proc[p].listeningEvents = IF WasBound(proc[p].srv) THEN 1 ELSE 0
  /\ \A s \in Servers :
       WasBound(s) => Cardinality({p \in Procs : proc[p].srv = s}) = 1
  /\ proc[0].restartEvents = 0
  /\ \A c \in Cycles :
       /\ proc[c].restartEvents =
            IF proc[c].pc \in {"finally", "settled"} /\ proc[c].err = "none"
            THEN 1 ELSE 0
       /\ proc[c].restartEvents = 1
            => (StopComplete(c) /\ proc[c].invalidated /\ WasBound(ServerOf(c)))

\* After start(), one restart cycle has succeeded and one has failed in its
\* bind.
C14_Witness ==
  \E c, d \in Cycles :
    /\ proc[0].listeningEvents = 1
    /\ proc[c].pc = "settled" /\ proc[c].err = "bind" /\ proc[c].restartEvents = 0
    /\ proc[d].pc = "settled" /\ proc[d].err = "none" /\ proc[d].restartEvents = 1
    /\ proc[d].listeningEvents = 1

\* The chains that have run the start step, and the latest of them.
StartedChains ==
  {p \in Procs : IF p = 0 THEN started ELSE proc[p].invalidated}

LatestStart ==
  CHOOSE p \in StartedChains : \A q \in StartedChains : proc[q].ord <= proc[p].ord

\* What a complete build applies to a new application.
FullPipeline == <<Compression>> \o [i \in 1 .. NumAddons |-> AddonHook(i)]

\* C15: this.app is the application the latest start step created, and the
\* server the task holds was created with it; once its build is complete
\* it holds the compression middleware and each addon hook once, in order,
\* and the custom server module once if there is one; no application holds
\* anything twice.
C15_FreshApplication ==
  /\ started => app = LatestStart + 1
  /\ \A s \in Servers :
       (httpServer = s /\ srvState[s] \in {"created", "binding", "listening"})
         => app = AppServed(s)
  /\ \A a \in Apps :
       \A i, j \in 1 .. Len(mw[a]) : mw[a][i] = mw[a][j] => i = j
  /\ \A p \in Procs :
       (proc[p].listened /\ app = AppOf(p))
         => /\ mw[app] = FullPipeline
            /\ probe.app = app
            /\ probe.used + probe.called = IF IsFunction(probe.export) THEN 1 ELSE 0

\* A restart cycle has replaced the application of start(), with a custom
\* server module mounted on both, and its server is listening.
C15_Witness ==
  \E c \in Cycles :
    /\ mw[AppOf(0)] = FullPipeline
    /\ WasBound(ServerOf(0))
    /\ app = AppOf(c)
    /\ srvState[ServerOf(c)] = "listening"
    /\ probe.app = app
    /\ probe.used = 1

\* C16: start() writes the "Serving on ..." line once, after its server
\* has emitted 'listening', and not at all when the start has failed on the
\* TLS files, the custom server module, a middleware or the bind; a restart
\* cycle never writes it.
C16_StatusLineOnce ==
  /\ proc[0].statusLines <= 1
  /\ proc[0].statusLines = 1
       <=> (proc[0].pc = "done" /\ proc[0].err = "none")
  /\ proc[0].statusLines = 1
       => (proc[0].listeningEvents = 1 /\ WasBound(ServerOf(0)))
  /\ proc[0].pc = "failed"
       => (proc[0].statusLines = 0
             /\ proc[0].err \in {"tls", "module", "middleware", "addon", "bind"})
  /\ \A c \in Cycles : proc[c].statusLines = 0

\* The line has been written, and a restart has replaced the server since.
C16_Witness ==
  /\ proc[0].statusLines = 1
  /\ srvState[ServerOf(0)] = "closed"
  /\ \E c \in Cycles : srvState[ServerOf(c)] = "listening"

\* C17: a watcher notification and the ticks of the debounce timer change
\* nothing of a cycle in flight; when the timer fires while a cycle is
\* executing, that cycle, the slot and the servers stay as they are and the
\* new request waits on the cycle's promise; and a waiting request begins
\* its cycle only when the cycle it waited for and every cycle begun before
\* have finished and none is executing.
C17_NotificationQueuesBehindCycle ==
  [][ /\ (fires' = fires /\ <<timer, bursts, burstLen>>' # <<timer, bursts, burstLen>>)
           => UNCHANGED <<proc, serverRestartPromise, waiting, httpServer, srvState,
                          conn, sockets, app, mw>>
      /\ (fires' # fires /\ serverRestartPromise # 0)
           => /\ serverRestartPromise' = serverRestartPromise
              /\ \A q \in Procs \ {NextReq} : proc'[q] = proc[q]
              /\ proc'[NextReq].pc = "queued"
              /\ proc'[NextReq].behind = serverRestartPromise
              /\ waiting' = [waiting EXCEPT ![serverRestartPromise] = Append(@, NextReq)]
              /\ UNCHANGED <<httpServer, srvState, conn, sockets, app, mw>>
      /\ \A r \in Cycles :
           (proc[r].pc = "queued" /\ proc'[r].pc # "queued")
             => /\ proc[proc[r].behind].pc = "settled"
                /\ serverRestartPromise = 0
                /\ \A c \in Cycles : ~Executing(c)
                /\ \A c \in Begun : proc[c].pc = "settled"
                /\ proc'[r].ord = Cardinality(Begun) + 1 ]_vars

\* Two bursts of notifications: the timer of the second fired while the
\* cycle of the first was executing, and both cycles have finished, in
\* that order.
C17_Witness ==
  /\ fires = 2
  /\ Cardinality(Requested) = 2
  /\ proc[2].behind = 1
  /\ proc[1].pc = "settled"
  /\ proc[2].pc = "settled"
  /\ proc[1].ord = 1
  /\ proc[2].ord = 2
  /\ proc[2].invalidated

\* The connections accepted so far; they are numbered in the order of
\* their 'connection' events.
Accepted == {k \in ConnIds : conn[k].st # "unused"}

\* C18: the ids the registry hands out are strictly increasing in the order
\* of acceptance, so no two connections ever get the same id, also when one
\* was accepted before a restart and the other after it.
C18_IdsNeverReused ==
  \A k, j \in Accepted : k < j => conn[k].sid < conn[j].sid

\* C19: a 'close' event removes only the entry of its own connection, so
\* every open connection of the server the task holds is in the registry,
\* under its own id, until it closes or the next stop destroys it.
C19_OpenConnectionsTracked ==
  \A k \in ConnIds :
    (conn[k].st = "open" /\ httpServer # 0 /\ conn[k].srv = httpServer)
      => sockets[conn[k].sid] = k

\* The slot holds a cycle exactly while one is executing, and holds that one.
SlotExact ==
  /\ serverRestartPromise # 0 <=> \E c \in Cycles : Executing(c)
  /\ \A c \in Cycles : Executing(c) => serverRestartPromise = c

\* The step runs a continuation attached to the promise of cycle c.
ContinuationRuns(c) ==
  proc[c].pc = "settled" /\ Len(waiting'[c]) < Len(waiting[c])

\* C20 as stated: the slot is non-null exactly while a cycle is executing,
\* and every continuation queued behind a cycle finds the slot free when it
\* runs.
C20_QueuedRequestFindsSlotFree ==
  [][ /\ SlotExact
      /\ SlotExact'
      /\ \A c \in Cycles : ContinuationRuns(c) => serverRestartPromise = 0 ]_vars

\* C20, amended: the slot is non-null exactly while a cycle is executing;
\* the end of a cycle clears it on every path, before any continuation of
\* that cycle runs; a continuation never finds the finished cycle in the
\* slot: it finds the slot free and begins its cycle, or finds the cycle
\* that an earlier continuation has begun and waits on that one.
C20_SlotSetWhileExecuting ==
  [][ /\ SlotExact
      /\ SlotExact'
      /\ \A c \in Cycles :
           (proc[c].pc = "finally" /\ proc'[c].pc # "finally")
             => (serverRestartPromise = c /\ serverRestartPromise' = 0)
      /\ \A c \in Cycles :
           ContinuationRuns(c)
             => LET r == Head(waiting[c]) IN
                /\ serverRestartPromise # c
                /\ serverRestartPromise = 0
                     => (serverRestartPromise' = r /\ proc'[r].pc \in ExecutingPcs)
                /\ serverRestartPromise # 0
                     => /\ serverRestartPromise' = serverRestartPromise
                        /\ proc'[r].pc = "queued"
                        /\ waiting'[serverRestartPromise]
                             = Append(waiting[serverRestartPromise], r) ]_vars

\* Two requests waited on the first cycle, which failed; the continuation of
\* one began the second cycle and the other one waits on that.
C20_Witness ==
  \E c, d, r \in Cycles :
    /\ proc[c].pc = "settled"
    /\ proc[c].err # "none"
    /\ waiting[c] = <<>>
    /\ proc[d].behind = c
    /\ Executing(d)
    /\ proc[r].behind = c
    /\ proc[r].pc = "queued"
    /\ waiting[d] = <<r>>

====
